---- MODULE Spec2Model ----
(***************************************************************************)
(* A model of coderodde/pnms: natural merge sort and its fork-join         *)
(* parallel variant (src/parallel_natural_merge_sort.h), driven the way    *)
(* the harness of src/main.cpp drives them.                                *)
(*                                                                         *)
(* Memory is two arrays: "A", the caller's range [first, last), and "B",   *)
(* the auxiliary buffer of the top-level call.  An element is a pair       *)
(* <<key, id>>; the comparator looks at the key only (the lambda           *)
(* *a < *b of main.cpp over distinct pointers), the id tells equal keys    *)
(* apart.  Array indices are 0-based as in the source; a TLA+ sequence s   *)
(* holds index i at s[i + 1].                                              *)
(***************************************************************************)
EXTENDS Integers, Sequences, FiniteSets, TLC

\* ------------------------------------------------------------------ bounds
\* Longest generated input.
MaxLen == 5
\* Keys of the generated inputs are 1..MaxKey.
MaxKey == 2
\* Largest value std::thread::hardware_concurrency() reports.
MaxCores == 4
\* Elements per thread below which no thread is spawned.  The source has
\* 1 << 14; the model scales it down so that short inputs reach the
\* parallel path.
MINIMUM_THREAD_LOAD == 2
\* Most enqueue calls made on the queue that is exercised on its own; more
\* than its capacity, so that m_head and m_tail wrap around.
MaxEnqueues == 260
\* Longest sequence whose queue capacity is computed.
MaxSeqLen == 1100
\* Largest run count whose pass amount is computed.
MaxRunAmount == 600

\* ------------------------------------------------------- program constants
MINIMUM_CAPACITY == 256
\* 8 * sizeof(size_t)
WordBits == 64

\* ------------------------------------------------------------------ values
Key(e) == e[1]

\* Content of a freshly allocated, not yet written array slot.
Junk == <<0, 0>>

\* std::less<int> / the lambda of main.cpp: a strict weak order on the keys.
cmp(x, y) == Key(x) < Key(y)

Min(x, y) == IF x < y THEN x ELSE y
Max(x, y) == IF x < y THEN y ELSE x

RECURSIVE BitAnd(_, _)
\* x & y on non-negative integers.
BitAnd(x, y) ==
    IF x = 0 \/ y = 0 THEN 0
    ELSE (x % 2) * (y % 2) + 2 * BitAnd(x \div 2, y \div 2)

\* ------------------------------------------------------------ UnsafeIntQueue
RECURSIVE fixLoop(_, _)
fixLoop(s, capacity) == IF s < capacity THEN fixLoop(2 * s, capacity) ELSE s

\* The rounding without the minimum capacity.
fixCapacityNoMinimum(capacity) == fixLoop(1, capacity)

fixCapacity(capacity) == fixLoop(1, Max(capacity, MINIMUM_CAPACITY))

\* m_buffer is allocated uninitialised: it is a function on the slots written
\* so far.
UnsafeIntQueue(capacity) ==
    [m_head |-> 0, m_tail |-> 0, m_size |-> 0,
     m_mask |-> fixCapacity(capacity) - 1,
     m_buffer |-> <<>>]

\* enqueue() that leaves m_tail where it is.
enqueueSameSlot(q, element) ==
    [q EXCEPT !.m_buffer = (BitAnd(q.m_tail, q.m_mask) :> element) @@ q.m_buffer,
              !.m_size = q.m_size + 1]

enqueue(q, element) ==
    [q EXCEPT !.m_buffer = (BitAnd(q.m_tail, q.m_mask) :> element) @@ q.m_buffer,
              !.m_tail = BitAnd(q.m_tail + 1, q.m_mask),
              !.m_size = q.m_size + 1]

\* The values dequeue() may return: the slot at m_head, or anything when the
\* slot was never written.
dequeueRet(q) ==
    IF q.m_head \in DOMAIN q.m_buffer THEN {q.m_buffer[q.m_head]} ELSE 0..MaxLen

\* dequeue() without the mask on m_head.
dequeueNoWrap(q) ==
    [q EXCEPT !.m_head = q.m_head + 1,
              !.m_size = q.m_size - 1]

\* dequeue() that leaves m_size as it is.
dequeueKeepSize(q) == [q EXCEPT !.m_head = BitAnd(q.m_head + 1, q.m_mask)]

\* The queue after dequeue().  m_size is unsigned in the source; a negative
\* value here stands for the wrapped one.
dequeue(q) ==
    [q EXCEPT !.m_head = BitAnd(q.m_head + 1, q.m_mask),
              !.m_size = q.m_size - 1]

size(q) == q.m_size

\* The lengths held, oldest first (the next m_size slots from m_head).
QueueContent(q) ==
    [i \in 1..q.m_size |->
        LET slot == BitAnd(q.m_head + i - 1, q.m_mask)
        IN  IF slot \in DOMAIN q.m_buffer THEN q.m_buffer[slot] ELSE 0]

\* ------------------------------------------------------------------- arrays
\* s[lo, lo + n), 0-based.
Slice(s, lo, n) == [i \in 1..n |-> s[lo + i]]

\* Write, one element short.
WriteShort(s, lo, t) ==
    [i \in 1..Len(s) |-> IF lo < i /\ i < lo + Len(t) THEN t[i - lo] ELSE s[i]]

\* s with t written at [lo, lo + Len(t)).
Write(s, lo, t) ==
    [i \in 1..Len(s) |-> IF lo < i /\ i <= lo + Len(t) THEN t[i - lo] ELSE s[i]]

\* std::reverse(s + lo, s + hi - 1): the last element of the run left out.
ReverseShort(s, lo, hi) ==
    [i \in 1..Len(s) |-> IF lo < i /\ i <= hi - 1 THEN s[lo + hi - i] ELSE s[i]]

\* std::reverse(s + lo, s + hi)
Reverse(s, lo, hi) ==
    [i \in 1..Len(s) |-> IF lo < i /\ i <= hi THEN s[lo + hi + 1 - i] ELSE s[i]]

\* The copy left out.
CopyNothing(m, from, to, lo, n) == m

\* The copy written at the start of the array instead of at the offset.
CopyToStart(m, from, to, lo, n) == [m EXCEPT ![to] = Write(@, 0, Slice(m[from], lo, n))]

\* std::copy(from + lo, from + lo + n, to + lo) between two arrays of m.
Copy(m, from, to, lo, n) == [m EXCEPT ![to] = Write(@, lo, Slice(m[from], lo, n))]

RECURSIVE MergeInverted(_, _)
\* A merge with the comparison the wrong way round.
MergeInverted(l, r) ==
    IF l = <<>> THEN r
    ELSE IF r = <<>> THEN l
    ELSE IF cmp(Head(l), Head(r)) THEN <<Head(r)>> \o MergeInverted(l, Tail(r))
    ELSE <<Head(l)>> \o MergeInverted(Tail(l), r)

RECURSIVE MergeRightOnTies(_, _)
\* A merge that takes the element of the second range on a tie.
MergeRightOnTies(l, r) ==
    IF l = <<>> THEN r
    ELSE IF r = <<>> THEN l
    ELSE IF ~cmp(Head(l), Head(r)) THEN <<Head(r)>> \o MergeRightOnTies(l, Tail(r))
    ELSE <<Head(l)>> \o MergeRightOnTies(Tail(l), r)

\* How many elements the loop of std::merge takes from the first range before
\* it takes the head of the second: those up to the first one that the head
\* of the second is strictly less than.
TakenLeft(l, r) ==
    Cardinality({i \in 1..Len(l) : \A j \in 1..i : ~cmp(Head(r), l[j])})

\* How many elements it takes from the second range before it takes the head
\* of the first: those that are strictly less than it.
TakenRight(l, r) ==
    Cardinality({i \in 1..Len(r) : \A j \in 1..i : cmp(r[j], Head(l))})

RECURSIVE Merge(_, _)
\* std::merge: the element of the second range is taken only when it is
\* strictly less than the element of the first.  One step takes all the
\* elements that the loop takes from the same range in a row.
Merge(l, r) ==
    IF l = <<>> THEN r
    ELSE IF r = <<>> THEN l
    ELSE IF cmp(Head(r), Head(l))
         THEN SubSeq(r, 1, TakenRight(l, r))
                  \o Merge(l, SubSeq(r, TakenRight(l, r) + 1, Len(r)))
         ELSE SubSeq(l, 1, TakenLeft(l, r))
                  \o Merge(SubSeq(l, TakenLeft(l, r) + 1, Len(l)), r)

\* ------------------------------------------------------------- run scanner
\* !cmp(*left, *right): a tie counted as descending.
DescendingOrEqual(s, left, right) == ~cmp(s[left + 1], s[right + 1])

\* cmp(*right, *left): the run that starts at left is strictly descending.
Descending(s, left, right) == cmp(s[right + 1], s[left + 1])

RECURSIVE DescEndOrEqual(_, _, _, _)
\* The descending run extended over ties as well.
DescEndOrEqual(s, left, right, lst) ==
    IF left < lst /\ ~cmp(s[left + 1], s[right + 1])
    THEN DescEndOrEqual(s, left + 1, right + 1, lst)
    ELSE left

RECURSIVE DescEnd(_, _, _, _)
\* while (left < lst && cmp(*right, *left)) { ++left; ++right; }
\* The value is left when the loop exits; right has moved as far.
DescEnd(s, left, right, lst) ==
    IF left < lst /\ cmp(s[right + 1], s[left + 1])
    THEN DescEnd(s, left + 1, right + 1, lst)
    ELSE left

RECURSIVE AscEnd(_, _, _, _)
\* while (left < lst && !cmp(*right, *left)) { ++left; ++right; }
AscEnd(s, left, right, lst) ==
    IF left < lst /\ ~cmp(s[right + 1], s[left + 1])
    THEN AscEnd(s, left + 1, right + 1, lst)
    ELSE left

\* ------------------------------------------------------------- bit helpers
\* Bit b of num.  Model values stay below 2^31, so higher bits are clear; a
\* negative num stands for the wrapped size_t with every bit set.
BitSet(num, b) ==
    IF num < 0 THEN TRUE
    ELSE IF b > 30 THEN FALSE
    ELSE (num \div (2 ^ b)) % 2 = 1

RECURSIVE lzLoopOffByOne(_, _)
\* The loop testing the bit above the one it should test.
lzLoopOffByOne(num, count) ==
    IF count = WordBits THEN count
    ELSE IF BitSet(num, WordBits - count) THEN count
    ELSE lzLoopOffByOne(num, count + 1)

RECURSIVE lzLoop(_, _)
lzLoop(num, count) ==
    IF count = WordBits THEN count
    ELSE IF BitSet(num, WordBits - 1 - count) THEN count
    ELSE lzLoop(num, count + 1)

leading_zeros(num) == lzLoop(num, 0)

\* The pass count taken from run_amount instead of run_amount - 1.
get_pass_amount_of_runs(run_amount) == WordBits - leading_zeros(run_amount)

get_pass_amount(run_amount) == WordBits - leading_zeros(run_amount - 1)

\* ---------------------------------------------------------------- dispatcher
\* The budget without the minimum load per thread.
ThreadBudgetCoresOnly(c, length) == c

\* The load per thread divided rounding up.
ThreadBudgetRoundedUp(c, length) ==
    Min(c, (length + MINIMUM_THREAD_LOAD - 1) \div MINIMUM_THREAD_LOAD)

\* std::min(cores, length / MINIMUM_THREAD_LOAD)
ThreadBudget(c, length) == Min(c, length \div MINIMUM_THREAD_LOAD)

\* ------------------------------------------------------------------- inputs
\* get_presorted_int_array of main.cpp: ascending half, then descending half.
PresortedArray(length) ==
    [i \in 1..length |->
        IF i - 1 < length \div 2 THEN i - 1
        ELSE length \div 2 - ((i - 1) - length \div 2)]

\* The descending-then-ascending scenario.
DescAsc == <<5, 4, 3, 2, 1, 2, 3, 4>>

\* The stability scenario (keys of (3,a) (1,b) (3,c) (2,d)).
Pairs == <<3, 1, 3, 2>>

\* Seven elements: three runs of two and an orphan.
OrphanRuns == <<1, 2, 1, 2, 1, 2, 1>>

\* Ten elements: five descending runs of two.
FiveRuns == <<2, 1, 2, 1, 2, 1, 2, 1, 2, 1>>

\* 1, 2, 1, 2, ...: runs of two, and an orphan when length is odd.
Alternating(length) == [i \in 1..length |-> IF i % 2 = 1 THEN 1 ELSE 2]

\* Inputs with as many runs as the smallest queue holds, and with one more
\* than that.
LongInputs ==
    {Alternating(2 * MINIMUM_CAPACITY - 1), Alternating(2 * MINIMUM_CAPACITY + 1)}

Inputs ==
    UNION {[1..n -> 1..MaxKey] : n \in 0..MaxLen}
        \cup {PresortedArray(8), DescAsc, Pairs, OrphanRuns, FiveRuns}

\* The elements of an input: key and position.
Elems(ks) == [i \in 1..Len(ks) |-> <<ks[i], i>>]

\* -------------------------------------------------------------------- state
VARIABLES
    mem,      \* [A |-> caller's range, B |-> auxiliary buffer (<<>>: none)]
    orig,     \* the input: what every array of the harness starts as
    array2,   \* the harness's array2 once natural_merge_sort has sorted it
    entry,    \* "seq": natural_merge_sort, "par": parallel_natural_merge_sort
    cores,    \* what hardware_concurrency() returned (0 before it is read)
    spawn,    \* the dispatcher's thread budget (0 before it is computed)
    pc,       \* the caller: "start", "running", "returned", "threw", "terminated"
    frames,   \* the live activations, by position in the fork-join tree
    alloc,    \* the auxiliary buffer: live, and how often allocated / released
    stats,    \* what has been invoked so far: comparator, scanner, thread spawns
    bench     \* an UnsafeIntQueue exercised on its own (<<>>: none)

vars == <<mem, orig, array2, entry, cores, spawn, pc, frames, alloc, stats, bench>>

MainThread == 0

\* The elements [lo, lo + n) of an array, as cells.
Cells(array, lo, n) == {<<array, i>> : i \in lo..(lo + n - 1)}

\* The activation placed at index 0 whatever its range.
SortFrameAtZero(thread, first, buffer, base, length) ==
    [kind |-> "sort", pc |-> "entry", thread |-> thread,
     first |-> first, buffer |-> buffer, base |-> 0, length |-> length,
     touched |-> {}]

\* An activation of natural_merge_sort_impl(first, last, buffer, cmp); first and
\* buffer name the arrays, base is the index of first in both.  touched is
\* the set of array elements the activation has read or written so far.
SortFrame(thread, first, buffer, base, length) ==
    [kind |-> "sort", pc |-> "entry", thread |-> thread,
     first |-> first, buffer |-> buffer, base |-> base, length |-> length,
     touched |-> {}]

\* The activation with source and target exchanged.
ParFrameExchanged(thread, source, target, base, length, thread_quota) ==
    [kind |-> "par", pc |-> "entry", thread |-> thread,
     source |-> target, target |-> source, base |-> base, length |-> length,
     thread_quota |-> thread_quota, touched |-> {}, leaves |-> {}]

\* An activation of parallel_natural_merge_sort_impl(source, target, length,
\* thread_quota, cmp).  leaves is the set of ranges that calls of
\* natural_merge_sort_impl made for this activation have sorted so far, each
\* with the thread that sorted it.
ParFrame(thread, source, target, base, length, thread_quota) ==
    [kind |-> "par", pc |-> "entry", thread |-> thread,
     source |-> source, target |-> target, base |-> base, length |-> length,
     thread_quota |-> thread_quota, touched |-> {}, leaves |-> {}]

\* The ranges sorted for activation f: its own when it is a call of
\* natural_merge_sort_impl.
LeavesOf(f) ==
    IF f.kind = "sort"
    THEN {[base |-> f.base, length |-> f.length, thread |-> f.thread]}
    ELSE f.leaves

\* Both halves given thread_quota / 2.
RightQuotaAsLeft(thread_quota, left_quota) == left_quota

\* const size_t right_quota = thread_quota - left_quota;
RightQuota(thread_quota, left_quota) == thread_quota - left_quota

Drop(fs, ns) == [m \in DOMAIN fs \ ns |-> fs[m]]

Init ==
    /\ \E ks \in Inputs : orig = Elems(ks)
    /\ mem = [A |-> orig, B |-> <<>>]
    /\ array2 = <<>>
    /\ entry = "seq"
    /\ cores = 0
    /\ spawn = 0
    /\ pc = "start"
    /\ frames = <<>>
    /\ alloc = [live |-> FALSE, allocs |-> 0, frees |-> 0]
    /\ stats = [cmp |-> FALSE, scan |-> 0, spawn |-> 0]
    /\ bench = <<>>

\* ------------------------------------------------------ natural_merge_sort
\* The body of natural_merge_sort up to the call of the implementation.
NaturalMergeSortCall ==
    LET length == Len(mem.A) IN
    IF length < 2
    THEN /\ pc' = "returned"
         /\ UNCHANGED <<mem, frames, alloc>>
    ELSE /\ mem' = [mem EXCEPT !.B = [i \in 1..length |-> Junk]]
         /\ alloc' = [alloc EXCEPT !.live = TRUE, !.allocs = @ + 1]
         /\ frames' = 1 :> SortFrame(MainThread, "A", "B", 0, length)
         /\ pc' = "running"

NaturalMergeSort ==
    /\ pc = "start"
    /\ entry = "seq"
    /\ NaturalMergeSortCall
    /\ UNCHANGED <<orig, array2, entry, cores, spawn, stats>>

\* natural_merge_sort after the implementation returned: delete[] buffer.
NaturalMergeSortReturn ==
    /\ pc = "running"
    /\ 1 \in DOMAIN frames
    /\ frames[1].kind = "sort"
    /\ frames[1].pc = "done"
    /\ mem' = [mem EXCEPT !.B = <<>>]
    /\ alloc' = [alloc EXCEPT !.live = FALSE, !.frees = @ + 1]
    /\ frames' = <<>>
    /\ pc' = "returned"
    /\ UNCHANGED <<orig, array2, entry, cores, spawn, stats>>

\* ------------------------------------------------- natural_merge_sort_impl
\* The capacity asked for without the + 1.
RunQueueCapacityHalf(length) == length \div 2

\* new UnsafeIntQueue(length / 2 + 1)
RunQueueCapacity(length) == length \div 2 + 1

SortBegin(n) ==
    /\ n \in DOMAIN frames
    /\ frames[n].kind = "sort"
    /\ frames[n].pc = "entry"
    /\ LET f == frames[n] IN
       IF f.length < 2
       THEN /\ frames' = [frames EXCEPT ![n].pc = "done"]
            /\ UNCHANGED stats
       ELSE /\ frames' = [frames EXCEPT ![n] =
                 [f EXCEPT !.pc = "scan"] @@
                 [q |-> UnsafeIntQueue(RunQueueCapacity(f.length)),
                  left |-> f.base, right |-> f.base + 1,
                  lst |-> f.base + f.length - 1]]
            /\ stats' = [stats EXCEPT !.scan = @ + 1]
    /\ UNCHANGED <<mem, orig, array2, entry, cores, spawn, pc, alloc>>

\* One iteration of the scanner's outer loop: one run.
ScanRun(n) ==
    /\ n \in DOMAIN frames
    /\ frames[n].kind = "sort"
    /\ frames[n].pc = "scan"
    /\ frames[n].left < frames[n].lst
    /\ LET f == frames[n]
           s == mem[f.first]
           head == f.left
           left1 == f.left + 1
           right1 == f.right + 1
       IN  IF Descending(s, f.left, f.right)
           THEN LET left2 == DescEnd(s, left1, right1, f.lst)
                    right2 == right1 + (left2 - left1)
                IN  /\ mem' = [mem EXCEPT ![f.first] = Reverse(s, head, right2)]
                    /\ frames' = [frames EXCEPT ![n].q = enqueue(f.q, right2 - head),
                                                ![n].left = left2 + 1,
                                                ![n].right = right2 + 1,
                                                ![n].touched = @ \cup
                                                    Cells(f.first, head,
                                                          Min(right2, f.lst) - head + 1)]
           ELSE LET left2 == AscEnd(s, left1, right1, f.lst)
                    right2 == right1 + (left2 - left1)
                IN  /\ mem' = mem
                    /\ frames' = [frames EXCEPT ![n].q = enqueue(f.q, left2 - head + 1),
                                                ![n].left = left2 + 1,
                                                ![n].right = right2 + 1,
                                                ![n].touched = @ \cup
                                                    Cells(f.first, head,
                                                          Min(right2, f.lst) - head + 1)]
    /\ stats' = [stats EXCEPT !.cmp = TRUE]
    /\ UNCHANGED <<orig, array2, entry, cores, spawn, pc, alloc>>

\* The scanner's exit (the orphan element) and the set-up of the merge loop.
ScanEnd(n) ==
    /\ n \in DOMAIN frames
    /\ frames[n].kind = "sort"
    /\ frames[n].pc = "scan"
    /\ ~(frames[n].left < frames[n].lst)
    /\ LET f == frames[n]
           q1 == IF f.left = f.lst THEN enqueue(f.q, 1) ELSE f.q
           merge_passes == get_pass_amount(size(q1))
           odd == BitAnd(merge_passes, 1) = 1
       IN  /\ mem' = IF odd THEN Copy(mem, f.first, f.buffer, f.base, f.length)
                     ELSE mem
           /\ frames' = [frames EXCEPT ![n] =
                  [f EXCEPT !.pc = "merge", !.q = q1,
                            !.touched = IF odd
                                        THEN @ \cup Cells(f.first, f.base, f.length)
                                               \cup Cells(f.buffer, f.base, f.length)
                                        ELSE @] @@
                  [merge_passes |-> merge_passes,
                   source |-> IF odd THEN f.buffer ELSE f.first,
                   target |-> IF odd THEN f.first ELSE f.buffer,
                   runs_left |-> size(q1), offset |-> 0,
                   runs |-> size(q1), merges |-> 0, passes |-> 0]]
    /\ UNCHANGED <<orig, array2, entry, cores, spawn, pc, alloc, stats>>

\* One iteration of the merge loop, the pass-boundary switch included.
MergeStep(n) ==
    /\ n \in DOMAIN frames
    /\ frames[n].kind = "sort"
    /\ frames[n].pc = "merge"
    /\ size(frames[n].q) > 1
    /\ LET f == frames[n] IN
       \E left_run_length \in dequeueRet(f.q) :
       \E right_run_length \in dequeueRet(dequeue(f.q)) :
       LET q2 == dequeue(dequeue(f.q))
           at == f.base + f.offset
           merged == Merge(Slice(mem[f.source], at, left_run_length),
                           Slice(mem[f.source], at + left_run_length, right_run_length))
           mem1 == [mem EXCEPT ![f.target] = Write(@, at, merged)]
           q3 == enqueue(q2, left_run_length + right_run_length)
           runs_left1 == f.runs_left - 2
           offset1 == f.offset + left_run_length + right_run_length
           merged_cells == Cells(f.source, at, left_run_length + right_run_length)
                           \cup Cells(f.target, at, left_run_length + right_run_length)
       IN  IF runs_left1 = 1
           THEN \E single_length \in dequeueRet(q3) :
                LET q5 == enqueue(dequeue(q3), single_length) IN
                /\ mem' = Copy(mem1, f.source, f.target, f.base + offset1, single_length)
                /\ frames' = [frames EXCEPT ![n] =
                       [f EXCEPT !.q = q5, !.runs_left = size(q5), !.offset = 0,
                                 !.source = f.target, !.target = f.source,
                                 !.merges = @ + 1, !.passes = @ + 1,
                                 !.touched = @ \cup merged_cells
                                     \cup Cells(f.source, f.base + offset1, single_length)
                                     \cup Cells(f.target, f.base + offset1, single_length)]]
           ELSE IF runs_left1 = 0
           THEN /\ mem' = mem1
                /\ frames' = [frames EXCEPT ![n] =
                       [f EXCEPT !.q = q3, !.runs_left = size(q3), !.offset = 0,
                                 !.source = f.target, !.target = f.source,
                                 !.merges = @ + 1, !.passes = @ + 1,
                                 !.touched = @ \cup merged_cells]]
           ELSE /\ mem' = mem1
                /\ frames' = [frames EXCEPT ![n] =
                       [f EXCEPT !.q = q3, !.runs_left = runs_left1,
                                 !.offset = offset1, !.merges = @ + 1,
                                 !.touched = @ \cup merged_cells]]
    /\ stats' = [stats EXCEPT !.cmp = TRUE]
    /\ UNCHANGED <<orig, array2, entry, cores, spawn, pc, alloc>>

\* The merge loop exits and natural_merge_sort_impl returns.
SortReturn(n) ==
    /\ n \in DOMAIN frames
    /\ frames[n].kind = "sort"
    /\ frames[n].pc = "merge"
    /\ ~(size(frames[n].q) > 1)
    /\ frames' = [frames EXCEPT ![n].pc = "done"]
    /\ UNCHANGED <<mem, orig, array2, entry, cores, spawn, pc, alloc, stats>>

\* -------------------------------------------- parallel_natural_merge_sort_impl
\* thread_quota == 1: the sequential sort of target, with source as its buffer.
ParLeaf(n) ==
    /\ n \in DOMAIN frames
    /\ frames[n].kind = "par"
    /\ frames[n].pc = "entry"
    /\ frames[n].thread_quota = 1
    /\ LET f == frames[n] IN
       frames' = (2 * n :> SortFrame(f.thread, f.target, f.source, f.base, f.length))
                 @@ [frames EXCEPT ![n].pc = "leaf"]
    /\ UNCHANGED <<mem, orig, array2, entry, cores, spawn, pc, alloc, stats>>

ParLeafReturn(n) ==
    /\ n \in DOMAIN frames
    /\ frames[n].kind = "par"
    /\ frames[n].pc = "leaf"
    /\ frames[2 * n].pc = "done"
    /\ frames' = Drop([frames EXCEPT ![n].pc = "done",
                                     ![n].leaves = @ \cup LeavesOf(frames[2 * n])],
                      {2 * n})
    /\ UNCHANGED <<mem, orig, array2, entry, cores, spawn, pc, alloc, stats>>

\* thread_quota == 2: a thread sorts the left half of source, this thread
\* enters the sort of the right half; target is the buffer of both.
ParFork2(n) ==
    /\ n \in DOMAIN frames
    /\ frames[n].kind = "par"
    /\ frames[n].pc = "entry"
    /\ frames[n].thread_quota # 1
    /\ frames[n].thread_quota = 2
    /\ LET f == frames[n]
           left_length == f.length \div 2
       IN  frames' =
             (2 * n :> SortFrame(2 * n, f.source, f.target, f.base, left_length))
             @@ (2 * n + 1 :> SortFrame(f.thread, f.source, f.target,
                                        f.base + left_length, f.length - left_length))
             @@ [frames EXCEPT ![n] = [f EXCEPT !.pc = "call"]
                                      @@ [left_length |-> left_length]]
    /\ stats' = [stats EXCEPT !.spawn = @ + 1]
    /\ UNCHANGED <<mem, orig, array2, entry, cores, spawn, pc, alloc>>

\* Any other thread_quota: a thread recurses on the left half, this thread on
\* the right half, both with source and target exchanged.
ParFork(n) ==
    /\ n \in DOMAIN frames
    /\ frames[n].kind = "par"
    /\ frames[n].pc = "entry"
    /\ frames[n].thread_quota # 1
    /\ frames[n].thread_quota # 2
    /\ LET f == frames[n]
           left_quota == f.thread_quota \div 2
           right_quota == RightQuota(f.thread_quota, left_quota)
           left_length == f.length \div 2
       IN  frames' =
             (2 * n :> ParFrame(2 * n, f.target, f.source, f.base,
                                left_length, left_quota))
             @@ (2 * n + 1 :> ParFrame(f.thread, f.target, f.source,
                                       f.base + left_length,
                                       f.length - left_length, right_quota))
             @@ [frames EXCEPT ![n] = [f EXCEPT !.pc = "call"]
                                      @@ [left_length |-> left_length]]
    /\ stats' = [stats EXCEPT !.spawn = @ + 1]
    /\ UNCHANGED <<mem, orig, array2, entry, cores, spawn, pc, alloc>>

\* The call on the right half returns to this activation.
ParCallReturn(n) ==
    /\ n \in DOMAIN frames
    /\ frames[n].kind = "par"
    /\ frames[n].pc = "call"
    /\ frames[2 * n + 1].pc = "done"
    /\ frames' = Drop([frames EXCEPT ![n].pc = "join",
                                     ![n].leaves = @ \cup LeavesOf(frames[2 * n + 1])],
                      {2 * n + 1})
    /\ UNCHANGED <<mem, orig, array2, entry, cores, spawn, pc, alloc, stats>>

\* A join() that does not wait for the thread.
ThreadFinishedOrNot(fs, k) == TRUE

\* The function the thread of activation k runs has returned.
ThreadFinished(fs, k) == fs[k].pc = "done"

\* join() returns once the spawned thread has finished.
ParJoin(n) ==
    /\ n \in DOMAIN frames
    /\ frames[n].kind = "par"
    /\ frames[n].pc = "join"
    /\ ThreadFinished(frames, 2 * n)
    /\ frames' = Drop([frames EXCEPT ![n].pc = "merge",
                                     ![n].leaves = @ \cup LeavesOf(frames[2 * n])],
                      {2 * n})
    /\ UNCHANGED <<mem, orig, array2, entry, cores, spawn, pc, alloc, stats>>

\* std::merge of the two halves of source into target.
ParMerge(n) ==
    /\ n \in DOMAIN frames
    /\ frames[n].kind = "par"
    /\ frames[n].pc = "merge"
    /\ LET f == frames[n]
           l == Slice(mem[f.source], f.base, f.left_length)
           r == Slice(mem[f.source], f.base + f.left_length, f.length - f.left_length)
       IN  /\ mem' = [mem EXCEPT ![f.target] = Write(@, f.base, Merge(l, r))]
           /\ stats' = [stats EXCEPT !.cmp = @ \/ (l # <<>> /\ r # <<>>)]
    /\ frames' = [frames EXCEPT ![n].pc = "done",
                                ![n].touched = @ \cup
                                    Cells(frames[n].source, frames[n].base, frames[n].length)
                                    \cup Cells(frames[n].target, frames[n].base,
                                               frames[n].length)]
    /\ UNCHANGED <<orig, array2, entry, cores, spawn, pc, alloc>>

\* ------------------------------------------------- parallel_natural_merge_sort
ParallelNaturalMergeSort ==
    /\ pc = "start"
    /\ entry = "par"
    /\ \E c \in 0..MaxCores :
       LET length == Len(mem.A)
           budget == ThreadBudget(c, length)
       IN  /\ cores' = c
           /\ spawn' = budget
           /\ IF budget < 2
              THEN NaturalMergeSortCall
              ELSE /\ mem' = Copy([mem EXCEPT !.B = [i \in 1..length |-> Junk]],
                                  "A", "B", 0, length)
                   /\ alloc' = [alloc EXCEPT !.live = TRUE, !.allocs = @ + 1]
                   /\ frames' = 1 :> ParFrame(MainThread, "B", "A", 0, length, budget)
                   /\ pc' = "running"
    /\ UNCHANGED <<orig, array2, entry, stats>>

\* The fork-join wrapper returned; the function ends without a delete[].
ParallelNaturalMergeSortReturn ==
    /\ pc = "running"
    /\ 1 \in DOMAIN frames
    /\ frames[1].kind = "par"
    /\ frames[1].pc = "done"
    /\ frames' = <<>>
    /\ pc' = "returned"
    /\ UNCHANGED <<mem, orig, array2, entry, cores, spawn, alloc, stats>>

\* ------------------------------------------------------------------ harness
\* profile_on_random_array and its siblings: natural_merge_sort has sorted
\* array2; parallel_natural_merge_sort is called next, on array3, another copy
\* of the same input.
Profile ==
    /\ pc = "returned"
    /\ entry = "seq"
    /\ array2' = mem.A
    /\ mem' = [A |-> orig, B |-> <<>>]
    /\ entry' = "par"
    /\ pc' = "start"
    /\ alloc' = [live |-> FALSE, allocs |-> 0, frees |-> 0]
    /\ stats' = [cmp |-> FALSE, scan |-> 0, spawn |-> 0]
    /\ UNCHANGED <<orig, cores, spawn, frames>>

\* ------------------------------------------------------- comparator failure
\* The activations below n on its call stack, n excluded.
RECURSIVE Callers(_)
Callers(n) == IF n <= 1 THEN {} ELSE {n \div 2} \cup Callers(n \div 2)

\* Activation n is about to call the comparator.
Comparing(n) ==
    /\ n \in DOMAIN frames
    /\ \/ /\ frames[n].kind = "sort"
          /\ frames[n].pc = "scan"
          /\ frames[n].left < frames[n].lst
       \/ /\ frames[n].kind = "sort"
          /\ frames[n].pc = "merge"
          /\ size(frames[n].q) > 1
       \/ /\ frames[n].kind = "par"
          /\ frames[n].pc = "merge"
          /\ frames[n].left_length > 0
          /\ frames[n].length - frames[n].left_length > 0

\* An exception thrown in activation n reaches the caller of the entry point:
\* n runs on the calling thread, and no activation it unwinds through owns a
\* std::thread that is still joinable.  Otherwise the exception leaves a
\* thread's function, or destroys a joinable std::thread: std::terminate.
Propagates(n) ==
    /\ frames[n].thread = MainThread
    /\ \A m \in Callers(n) : frames[m].pc \notin {"call", "join"}

\* The comparator throws at the first comparison activation n makes next.
Throw(n) ==
    /\ pc = "running"
    /\ Comparing(n)
    /\ pc' = IF Propagates(n) THEN "threw" ELSE "terminated"
    /\ frames' = <<>>
    /\ stats' = [stats EXCEPT !.cmp = TRUE]
    /\ UNCHANGED <<mem, orig, array2, entry, cores, spawn, alloc, bench>>

\* ------------------------------------------------------------ specification
Step(n) ==
    \/ SortBegin(n)
    \/ ScanRun(n)
    \/ ScanEnd(n)
    \/ MergeStep(n)
    \/ SortReturn(n)
    \/ ParLeaf(n)
    \/ ParLeafReturn(n)
    \/ ParFork2(n)
    \/ ParFork(n)
    \/ ParCallReturn(n)
    \/ ParJoin(n)
    \/ ParMerge(n)

Next ==
    /\ \/ NaturalMergeSort
       \/ NaturalMergeSortReturn
       \/ ParallelNaturalMergeSort
       \/ ParallelNaturalMergeSortReturn
       \/ Profile
       \/ \E n \in DOMAIN frames : Step(n)
    /\ UNCHANGED bench

Spec == Init /\ [][Next]_vars

\* The same program with a comparator that may throw.
NextThrow ==
    \/ Next
    \/ \E n \in DOMAIN frames : Throw(n)

SpecThrow == Init /\ [][NextThrow]_vars

\* --------------------------------------------- natural_merge_sort on its own
\* natural_merge_sort alone, also on the long inputs.
InitSeq ==
    /\ \E ks \in Inputs \cup LongInputs : orig = Elems(ks)
    /\ mem = [A |-> orig, B |-> <<>>]
    /\ array2 = <<>>
    /\ entry = "seq"
    /\ cores = 0
    /\ spawn = 0
    /\ pc = "start"
    /\ frames = <<>>
    /\ alloc = [live |-> FALSE, allocs |-> 0, frees |-> 0]
    /\ stats = [cmp |-> FALSE, scan |-> 0, spawn |-> 0]
    /\ bench = <<>>

NextSeq ==
    /\ \/ NaturalMergeSort
       \/ NaturalMergeSortReturn
       \/ \E n \in DOMAIN frames :
             \/ SortBegin(n)
             \/ ScanRun(n)
             \/ ScanEnd(n)
             \/ MergeStep(n)
             \/ SortReturn(n)
    /\ UNCHANGED bench

SpecSeq == InitSeq /\ [][NextSeq]_vars

\* ------------------------------------------------- the queue on its own
\* A client of UnsafeIntQueue that keeps to its contract: it never enqueues
\* into a full queue and never dequeues from an empty one.  The k-th value it
\* enqueues is k; enq and deq count its calls, ret is what the last dequeue
\* returned.
InitQueue ==
    /\ orig = <<>>
    /\ mem = [A |-> <<>>, B |-> <<>>]
    /\ array2 = <<>>
    /\ entry = "seq"
    /\ cores = 0
    /\ spawn = 0
    /\ pc = "start"
    /\ frames = <<>>
    /\ alloc = [live |-> FALSE, allocs |-> 0, frees |-> 0]
    /\ stats = [cmp |-> FALSE, scan |-> 0, spawn |-> 0]
    /\ \E capacity \in {0, MaxLen \div 2 + 1} :
           bench = [q |-> UnsafeIntQueue(capacity), enq |-> 0, deq |-> 0, ret |-> 0]

Enqueue ==
    /\ bench.enq < MaxEnqueues
    /\ size(bench.q) < bench.q.m_mask + 1
    /\ bench' = [bench EXCEPT !.q = enqueue(@, bench.enq + 1), !.enq = @ + 1]

Dequeue ==
    /\ size(bench.q) > 0
    /\ \E r \in dequeueRet(bench.q) :
           bench' = [bench EXCEPT !.q = dequeue(@), !.deq = @ + 1, !.ret = r]

NextQueue ==
    /\ \/ Enqueue
       \/ Dequeue
    /\ UNCHANGED <<mem, orig, array2, entry, cores, spawn, pc, frames, alloc, stats>>

SpecQueue == InitQueue /\ [][NextQueue]_vars

\* ---------------------------------------------------------------- reference
RECURSIVE InsertSorted(_, _)
\* e placed behind every element that is not greater than it.
InsertSorted(s, e) ==
    IF s = <<>> THEN <<e>>
    ELSE IF cmp(e, s[Len(s)])
         THEN InsertSorted(SubSeq(s, 1, Len(s) - 1), e) \o <<s[Len(s)]>>
         ELSE s \o <<e>>

RECURSIVE StableSorted(_)
\* What std::stable_sort leaves in the harness's array1: a stable insertion
\* sort, element by element from the left.
StableSorted(s) ==
    IF s = <<>> THEN <<>>
    ELSE InsertSorted(StableSorted(SubSeq(s, 1, Len(s) - 1)), s[Len(s)])

\* std::is_sorted(begin, end, cmp)
IsSorted(s) == \A i \in 1..(Len(s) - 1) : ~cmp(s[i + 1], s[i])

Keys(s) == [i \in 1..Len(s) |-> Key(s[i])]

\* How often e occurs in s.
Count(s, e) == Cardinality({i \in 1..Len(s) : s[i] = e})

SameMultiset(s, t) ==
    /\ Len(s) = Len(t)
    /\ \A i \in 1..Len(s) : Count(s, s[i]) = Count(t, s[i])

Returned(e) == pc = "returned" /\ entry = e

\* natural_merge_sort_impl's activation for the whole range has left the
\* scanner and has merged nothing yet.
Scanned ==
    /\ entry = "seq"
    /\ 1 \in DOMAIN frames
    /\ frames[1].kind = "sort"
    /\ frames[1].pc = "merge"
    /\ frames[1].merges = 0

\* ------------------------------------------------------------------- claims

\* C1: after natural_merge_sort returns, the caller's range is non-decreasing
\* under the comparator (no adjacent pair with cmp(a[i+1], a[i])); the input
\* [0,1,2,3,4,3,2,1] comes out as [0,1,1,2,2,3,3,4].
C1_Sorted ==
    Returned("seq") =>
        /\ IsSorted(mem.A)
        /\ Keys(orig) = PresortedArray(8) => Keys(mem.A) = <<0, 1, 1, 2, 2, 3, 3, 4>>

C1_Witness ==
    /\ Returned("seq")
    /\ Keys(orig) = PresortedArray(8)
    /\ Keys(mem.A) = <<0, 1, 1, 2, 2, 3, 3, 4>>

\* C2: natural_merge_sort is stable: elements with equivalent keys keep their
\* input order, and the output is element-wise what the reference stable sort
\* gives on the same input.
C2_Stable ==
    Returned("seq") =>
        /\ \A i, j \in 1..Len(mem.A) :
               (i < j /\ Key(mem.A[i]) = Key(mem.A[j])) => mem.A[i][2] < mem.A[j][2]
        /\ mem.A = StableSorted(orig)

C2_Witness ==
    /\ Returned("seq")
    /\ Keys(orig) = Pairs
    /\ mem.A = <<<<1, 2>>, <<2, 4>>, <<3, 1>>, <<3, 3>>>>

\* C3: after either entry point returns, the caller's range holds the same
\* multiset of elements as before the call.
C3_Permutation == pc = "returned" => SameMultiset(mem.A, orig)

C3_Witness ==
    /\ Returned("par")
    /\ spawn >= 2
    /\ mem.A # orig
    /\ \E i, j \in 1..Len(orig) : i # j /\ Key(orig[i]) = Key(orig[j])
    /\ SameMultiset(mem.A, orig)

\* C4: on the same input, parallel_natural_merge_sort leaves the sequence that
\* natural_merge_sort left (the harness's array3 equals its array2), whatever
\* the thread budget and the interleaving of the threads.
C4_SameAsSequential == Returned("par") => mem.A = array2

C4_Witness ==
    /\ Returned("par")
    /\ spawn = 4
    /\ mem.A = array2
    /\ mem.A # orig

\* C5: on the parallel path (thread budget >= 2), when
\* parallel_natural_merge_sort returns, the sorted, stable result is in the
\* caller's sequence.
C5_ResultInCallerRange ==
    (Returned("par") /\ spawn >= 2) =>
        /\ IsSorted(mem.A)
        /\ mem.A = StableSorted(orig)

C5_Witness ==
    /\ Returned("par")
    /\ spawn = 3
    /\ mem.A = StableSorted(orig)
    /\ mem.B # mem.A

\* C6: a failure of the comparator, in any comparison of either entry point,
\* reaches the caller of the entry point as that failure.
C6_FailurePropagates == pc \in {"threw", "terminated"} => pc = "threw"

\* C7: a top-level call on two or more elements allocates the auxiliary buffer
\* exactly once (a shorter one allocates none), and when the call returns
\* every buffer it allocated has been released.
C7_BufferReleased ==
    pc = "returned" =>
        /\ alloc.allocs = (IF Len(orig) < 2 THEN 0 ELSE 1)
        /\ alloc.frees = alloc.allocs
        /\ ~alloc.live

\* C8: on a sequence of length 0 or 1 neither entry point invokes the scanner
\* or the comparator or spawns a thread, and the sequence stays as it is.
C8_Trivial ==
    Len(orig) < 2 =>
        /\ mem.A = orig
        /\ stats = [cmp |-> FALSE, scan |-> 0, spawn |-> 0]

C8_Witness ==
    /\ Returned("par")
    /\ Len(orig) = 1
    /\ cores = MaxCores
    /\ array2 = orig
    /\ mem.A = orig

\* C9: natural_merge_sort on a sequence that is already non-decreasing leaves
\* every position holding the element it held.
C9_Idempotent == (Returned("seq") /\ IsSorted(orig)) => mem.A = orig

C9_Witness ==
    /\ Returned("seq")
    /\ IsSorted(orig)
    /\ Len(orig) >= 4
    /\ Key(orig[1]) = Key(orig[2])
    /\ Key(orig[2]) < Key(orig[Len(orig)])
    /\ mem.A = orig

\* C10 as stated: the scanner enqueues 5 and then 4 for [5,4,3,2,1,2,3,4] and
\* reverses the descending run in place.
C10_AsStated ==
    (Scanned /\ Keys(orig) = DescAsc) =>
        /\ QueueContent(frames[1].q) = <<5, 4>>
        /\ Keys(mem.A) = <<1, 2, 3, 4, 5, 2, 3, 4>>

\* C10, amended: the scanner enqueues 5 (the descending run) and then 3 (the
\* ascending run 2,3,4) for [5,4,3,2,1,2,3,4], and reverses the descending run
\* in place.
C10_RunLengths ==
    (Scanned /\ Keys(orig) = DescAsc) =>
        /\ QueueContent(frames[1].q) = <<5, 3>>
        /\ Keys(mem.A) = <<1, 2, 3, 4, 5, 2, 3, 4>>

C10_Witness ==
    /\ Scanned
    /\ Keys(orig) = DescAsc
    /\ QueueContent(frames[1].q) = <<5, 3>>
    /\ Keys(mem.A) = <<1, 2, 3, 4, 5, 2, 3, 4>>

\* C11: UnsafeIntQueue is a FIFO for a client that keeps 0 <= size <=
\* capacity, also once m_head and m_tail have wrapped around: each dequeue
\* returns the oldest value not yet dequeued (the k-th dequeue returns the
\* k-th value enqueued), and size() is the number of enqueues less the
\* number of dequeues.
C11_Fifo ==
    /\ size(bench.q) = bench.enq - bench.deq
    /\ bench.deq > 0 => bench.ret = bench.deq

\* A dequeue made after m_head and m_tail have both wrapped around, with
\* values still held.
C11_Witness ==
    /\ bench.deq > bench.q.m_mask + 1
    /\ bench.ret = bench.deq
    /\ bench.q.m_head < MINIMUM_CAPACITY - 1
    /\ size(bench.q) > 1

\* Activation n of natural_merge_sort_impl has the queue as the scanner
\* returned it: nothing merged yet.
ScannedAt(n) ==
    /\ frames[n].kind = "sort"
    /\ frames[n].pc = "merge"
    /\ frames[n].merges = 0

RECURSIVE Sum(_)
Sum(c) == IF c = <<>> THEN 0 ELSE Head(c) + Sum(Tail(c))

\* The index, from the start of the range, at which the i-th length of c begins.
StartOf(c, i) == Sum(SubSeq(c, 1, i - 1))

\* The lengths of c, taken in order from index base of s, delimit spans of s
\* that are each non-descending.
DelimitsSortedSpans(c, s, base) ==
    \A i \in 1..Len(c) : IsSorted(Slice(s, base + StartOf(c, i), c[i]))

\* C12: the queue build_run_size_queue returns for a range of n >= 2 elements
\* holds positive lengths that sum to n and, in dequeue order, delimit the
\* runs from left to right; every length is at least 2 except possibly the
\* last, which is 1 exactly when the scan ended on a single orphan element.
C12_RunQueue ==
    \A n \in DOMAIN frames :
        ScannedAt(n) =>
            LET f == frames[n]
                c == QueueContent(f.q)
            IN  /\ f.length >= 2
                /\ Len(c) >= 1
                /\ \A i \in 1..Len(c) : c[i] >= 1
                /\ Sum(c) = f.length
                /\ DelimitsSortedSpans(c, mem[f.first], f.base)
                /\ \A i \in 1..(Len(c) - 1) : c[i] >= 2
                /\ c[Len(c)] = 1 <=> f.left = f.lst

\* Five elements in two runs of two and an orphan.
C12_Witness ==
    /\ Scanned
    /\ QueueContent(frames[1].q) = <<2, 2, 1>>
    /\ frames[1].left = frames[1].lst

\* Activation n of natural_merge_sort_impl is past its merge loop.
LoopExited(n) ==
    /\ frames[n].kind = "sort"
    /\ frames[n].pc = "done"
    /\ frames[n].length >= 2

\* C13: when the merge loop of natural_merge_sort_impl exits, whatever the
\* number of runs and of passes, the merged data (the stable sort of what the
\* range held) is in [first, last), and if any pass ran, the buffer written
\* last is the one of first.
C13_ResultInInputRange ==
    \A n \in DOMAIN frames :
        LoopExited(n) =>
            LET f == frames[n] IN
            /\ Slice(mem[f.first], f.base, f.length)
                   = StableSorted(Slice(orig, f.base, f.length))
            /\ f.passes > 0 => f.source = f.first

\* Five runs, three passes (odd), a leftover run in the first two.
C13_Witness ==
    /\ entry = "seq"
    /\ 1 \in DOMAIN frames
    /\ LoopExited(1)
    /\ frames[1].runs = 5
    /\ frames[1].passes = 3
    /\ mem.A = StableSorted(orig)
    /\ mem.B # mem.A

\* C14: in the fork-join wrapper every activation reads and writes only
\* indices of its own contiguous sub-range of the two buffers, and what one
\* thread has read or written is disjoint from what any other live thread has
\* read or written: no two threads touch the same array element.
C14_DisjointAccess ==
    /\ \A n \in DOMAIN frames :
           frames[n].touched \subseteq
               Cells("A", frames[n].base, frames[n].length)
                   \cup Cells("B", frames[n].base, frames[n].length)
    /\ \A n, m \in DOMAIN frames :
           frames[n].thread # frames[m].thread =>
               frames[n].touched \cap frames[m].touched = {}

\* Three threads have touched elements, two of them in both buffers.
C14_Witness ==
    /\ spawn >= 3
    /\ \E k, n, m \in DOMAIN frames :
           /\ frames[k].thread # frames[n].thread
           /\ frames[k].thread # frames[m].thread
           /\ frames[n].thread # frames[m].thread
           /\ frames[k].touched # {}
           /\ \A x \in {n, m} :
                  \E c, d \in frames[x].touched : c[1] = "A" /\ d[1] = "B"

\* Activation m is in the subtree that activation n called or spawned.
RECURSIVE Below(_, _)
Below(m, n) == m > n /\ (m \div 2 = n \/ Below(m \div 2, n))

\* Activation n of the fork-join wrapper is about to merge its halves.
AtMerge(n) == frames[n].kind = "par" /\ frames[n].pc = "merge"

\* C15: at every join point of the fork-join wrapper (quota 2 and above) the
\* merge of the halves starts only when the spawned left sub-sort and the
\* right sub-sort of the current thread are over, and then source[0,
\* left_length) and source[left_length, length) are each sorted (the stable
\* sort of what the half held).
C15_MergeAfterBothSorted ==
    \A n \in DOMAIN frames :
        AtMerge(n) =>
            LET f == frames[n]
                l == Slice(mem[f.source], f.base, f.left_length)
                r == Slice(mem[f.source], f.base + f.left_length,
                           f.length - f.left_length)
            IN  /\ \A m \in DOMAIN frames : ~Below(m, n)
                /\ IsSorted(l)
                /\ IsSorted(r)
                /\ l = StableSorted(Slice(orig, f.base, f.left_length))
                /\ r = StableSorted(Slice(orig, f.base + f.left_length,
                                          f.length - f.left_length))

\* The root is at its merge with quota 3, its halves sorted, the whole not.
C15_Witness ==
    /\ 1 \in DOMAIN frames
    /\ AtMerge(1)
    /\ frames[1].thread_quota = 3
    /\ IsSorted(Slice(mem[frames[1].source], 0, frames[1].left_length))
    /\ IsSorted(Slice(mem[frames[1].source], frames[1].left_length,
                      frames[1].length - frames[1].left_length))
    /\ ~IsSorted(mem[frames[1].source])

\* Activation n of natural_merge_sort_impl owns a run-length queue.
HasQueue(n) == frames[n].kind = "sort" /\ frames[n].pc \in {"scan", "merge"}

Capacity(q) == q.m_mask + 1

\* The slot of the i-th length held, counted from m_head.
SlotOf(q, i) == BitAnd(q.m_head + i - 1, q.m_mask)

\* C16: during a sort of n >= 2 elements the queue is never misused: it never
\* holds more lengths than its capacity, every enqueue (of the scanner, of the
\* orphan, of a merged or left-over run) finds a free slot, so that no unread
\* slot is overwritten, and every dequeue (two per merge step, one for the
\* left-over run) finds a length that was enqueued.
C16_QueueNeverMisused ==
    \A n \in DOMAIN frames :
        HasQueue(n) =>
            LET f == frames[n]
                q == f.q
            IN  /\ 0 <= q.m_size
                /\ q.m_size <= Capacity(q)
                /\ \A i \in 1..q.m_size : SlotOf(q, i) \in DOMAIN q.m_buffer
                /\ (f.pc = "scan" /\ f.left <= f.lst) => q.m_size < Capacity(q)
                /\ (f.pc = "merge" /\ size(q) > 1) =>
                       /\ q.m_size >= 2
                       /\ q.m_size - 2 < Capacity(q)
                       /\ f.runs_left >= 2
                       /\ f.runs_left - 2 = 1 => q.m_size - 1 >= 1

\* The scanner has filled the queue to its capacity, and the merge loop has
\* since dequeued and enqueued around the end of the buffer.
C16_Witness ==
    /\ 1 \in DOMAIN frames
    /\ HasQueue(1)
    /\ frames[1].pc = "merge"
    /\ frames[1].runs = Capacity(frames[1].q)
    /\ frames[1].merges >= 2
    /\ frames[1].q.m_tail = 2

IsPowerOfTwo(c) == c > 0 /\ BitAnd(c, c - 1) = 0

\* The most lengths a sequence of n elements puts in the queue: every run but
\* the last has two elements or more.
MaxPending(n) == (n + 1) \div 2

\* C17 as stated: the capacity of the queue of a sort is a power of two, at
\* least the minimum capacity, and at least one more than the number of
\* lengths pending in it.
C17_AsStated ==
    \A n \in DOMAIN frames :
        HasQueue(n) =>
            /\ IsPowerOfTwo(Capacity(frames[n].q))
            /\ Capacity(frames[n].q) >= MINIMUM_CAPACITY
            /\ Capacity(frames[n].q) >= frames[n].q.m_size + 1

\* The capacity computed for every length n >= 2.
CapacityLaw ==
    \A n \in 2..MaxSeqLen :
        LET capacity == fixCapacity(RunQueueCapacity(n))
        IN  /\ IsPowerOfTwo(capacity)
            /\ capacity >= MINIMUM_CAPACITY
            /\ capacity >= MaxPending(n)

\* C17: for every length n >= 2 the capacity of the run-length queue is a
\* power of two, at least the minimum capacity (256), and at least the number
\* of lengths pending at any time of a sort of n elements, which is at most
\* (n + 1) / 2.
C17_Capacity ==
    /\ CapacityLaw
    /\ \A n \in DOMAIN frames :
          HasQueue(n) =>
              LET f == frames[n]
              IN  /\ Capacity(f.q) = fixCapacity(RunQueueCapacity(f.length))
                  /\ IsPowerOfTwo(Capacity(f.q))
                  /\ Capacity(f.q) >= MINIMUM_CAPACITY
                  /\ f.q.m_size <= MaxPending(f.length)
                  /\ Capacity(f.q) >= f.q.m_size

\* 511 elements in runs of two and an orphan: 256 lengths are pending in a
\* queue of capacity 256.
C17_Witness ==
    /\ 1 \in DOMAIN frames
    /\ HasQueue(1)
    /\ frames[1].length = 2 * MINIMUM_CAPACITY - 1
    /\ frames[1].q.m_size = MaxPending(frames[1].length)
    /\ frames[1].q.m_size = Capacity(frames[1].q)

\* ceil(log2(r)): the least p with 2^p >= r.
CeilLog2(r) == CHOOSE p \in 0..30 : 2 ^ p >= r /\ \A k \in 0..(p - 1) : 2 ^ k < r

\* get_pass_amount on every run count.
PassLaw == \A r \in 1..MaxRunAmount : get_pass_amount(r) = CeilLog2(r)

\* C18: get_pass_amount(r) is ceil(log2(r)) for every r >= 1 (0 for r = 1),
\* and when the merge loop of natural_merge_sort_impl has exited on an input
\* of r runs it has swapped the roles of source and target
\* get_pass_amount(r) times; before that it has swapped them fewer times or
\* as many.
C18_PassAmount ==
    /\ PassLaw
    /\ get_pass_amount(1) = 0
    /\ \A n \in DOMAIN frames :
          /\ LoopExited(n) =>
                /\ frames[n].merge_passes = get_pass_amount(frames[n].runs)
                /\ frames[n].passes = get_pass_amount(frames[n].runs)
                /\ frames[n].passes = CeilLog2(frames[n].runs)
          /\ (frames[n].kind = "sort" /\ frames[n].pc = "merge") =>
                frames[n].passes <= get_pass_amount(frames[n].runs)

\* 257 runs have been merged in 9 passes.
C18_Witness ==
    /\ 1 \in DOMAIN frames
    /\ LoopExited(1)
    /\ frames[1].runs = MINIMUM_CAPACITY + 1
    /\ frames[1].passes = 9
    /\ frames[1].merges = MINIMUM_CAPACITY

\* Activation n of natural_merge_sort_impl is at a pass boundary: before the
\* first pass, or right after a role swap.
AtPassBoundary(n) ==
    /\ frames[n].kind = "sort"
    /\ frames[n].pc = "merge"
    /\ frames[n].offset = 0

\* The number of runs that p passes leave of r runs.
RunsAfter(r, p) == (r + 2 ^ p - 1) \div (2 ^ p)

\* C19: at every pass boundary of the merge loop (offset = 0) the source
\* buffer holds all the elements of the range, the lengths in the queue sum
\* to n and, in queue order, delimit from the start of the range contiguous
\* sorted spans of source; after a pass over an odd number of runs the last
\* length in the queue is the one of the left-over run, which lies at the end
\* of source as it lay at the same offset of the buffer it was copied from.
C19_PassBoundary ==
    \A n \in DOMAIN frames :
        AtPassBoundary(n) =>
            LET f == frames[n]
                c == QueueContent(f.q)
                k == c[Len(c)]
            IN  /\ SameMultiset(Slice(mem[f.source], f.base, f.length),
                                Slice(orig, f.base, f.length))
                /\ Len(c) = RunsAfter(f.runs, f.passes)
                /\ f.runs_left = Len(c)
                /\ \A i \in 1..Len(c) : c[i] >= 1
                /\ Sum(c) = f.length
                /\ DelimitsSortedSpans(c, mem[f.source], f.base)
                /\ (f.passes > 0 /\ RunsAfter(f.runs, f.passes - 1) % 2 = 1) =>
                       Slice(mem[f.source], f.base + f.length - k, k)
                           = Slice(mem[f.target], f.base + f.length - k, k)

\* Two runs of two and an orphan: after the first pass the queue holds the
\* merged length and then the orphan's, and the orphan is the last element of
\* both buffers.
C19_Witness ==
    /\ entry = "seq"
    /\ 1 \in DOMAIN frames
    /\ AtPassBoundary(1)
    /\ frames[1].runs = 3
    /\ frames[1].passes = 1
    /\ QueueContent(frames[1].q) = <<4, 1>>
    /\ Keys(mem[frames[1].source]) = <<1, 1, 2, 2, 1>>
    /\ mem[frames[1].target][5] = mem[frames[1].source][5]

Reversed(s) == [i \in 1..Len(s) |-> s[Len(s) + 1 - i]]

StrictlyDescending(s) == \A i \in 1..(Len(s) - 1) : cmp(s[i + 1], s[i])

\* C20: when the scanner has returned, every span its lengths delimit is
\* either as it was in the input or the reverse of a span of the input whose
\* adjacent pairs were all strictly descending; every span is non-descending,
\* and no two equivalent elements of the range have changed relative order.
C20_ScannerKeepsTies ==
    \A n \in DOMAIN frames :
        ScannedAt(n) =>
            LET f == frames[n]
                c == QueueContent(f.q)
                a == Slice(mem[f.first], f.base, f.length)
                o == Slice(orig, f.base, f.length)
            IN  /\ Sum(c) = f.length
                /\ \A i \in 1..Len(c) :
                      LET now == Slice(a, StartOf(c, i), c[i])
                          before == Slice(o, StartOf(c, i), c[i])
                      IN  /\ IsSorted(now)
                          /\ \/ now = before
                             \/ now = Reversed(before) /\ StrictlyDescending(before)
                          /\ (\E j \in 1..(c[i] - 1) :
                                 Key(before[j]) = Key(before[j + 1])) => now = before
                /\ \A i, j \in 1..f.length :
                      (i < j /\ Key(a[i]) = Key(a[j])) => a[i][2] < a[j][2]

\* 2 1 1 1 scanned: the strictly descending pair is reversed, the tie after it
\* is a run of its own and stays as it was.
C20_Witness ==
    /\ Scanned
    /\ Keys(orig) = <<2, 1, 1, 1>>
    /\ QueueContent(frames[1].q) = <<2, 2>>
    /\ mem[frames[1].first] = <<orig[2], orig[1], orig[3], orig[4]>>

\* The activations of the fork-join recursion of activation n, n included.
Subtree(n) == {m \in DOMAIN frames : m = n \/ Below(m, n)}

\* The threads that have work left in the recursion of activation n.
ActiveThreads(n) == {frames[m].thread : m \in {k \in Subtree(n) : frames[k].pc # "done"}}

\* The indices of a sorted range.
IndicesOf(leaf) == leaf.base..(leaf.base + leaf.length - 1)

\* C21: a call of the fork-join wrapper with thread quota q splits q between
\* its halves; when its sub-sorts have finished, natural_merge_sort_impl has
\* sorted exactly q ranges for it, on q different threads, and the ranges
\* partition the range of the call; at no time do more than q threads have
\* work left in it, and the whole sort has spawned q - 1 threads.
C21_LeavesAndThreads ==
    /\ \A n \in DOMAIN frames :
          frames[n].kind = "par" =>
              LET f == frames[n]
              IN  /\ f.thread_quota >= 1
                  /\ Cardinality(ActiveThreads(n)) <= f.thread_quota
                  /\ Cardinality({frames[m].thread : m \in Subtree(n)}) <= f.thread_quota
                  /\ Cardinality(f.leaves) <= f.thread_quota
                  /\ (f.pc = "call" /\ f.thread_quota > 2) =>
                         frames[2 * n].thread_quota + frames[2 * n + 1].thread_quota
                             = f.thread_quota
                  /\ f.pc \in {"merge", "done"} =>
                         /\ Cardinality(f.leaves) = f.thread_quota
                         /\ Cardinality({leaf.thread : leaf \in f.leaves}) = f.thread_quota
                         /\ UNION {IndicesOf(leaf) : leaf \in f.leaves}
                                = f.base..(f.base + f.length - 1)
                         /\ \A l1, l2 \in f.leaves :
                                l1 # l2 => IndicesOf(l1) \cap IndicesOf(l2) = {}
    /\ \A n \in DOMAIN frames :
          (frames[n].kind = "sort" /\ frames[n].pc = "done") =>
              IsSorted(Slice(mem[frames[n].first], frames[n].base, frames[n].length))
    /\ (Returned("par") /\ spawn >= 2) => stats.spawn = spawn - 1

\* A quota of four: four threads are in the scanner or the merge loop of their
\* own range at the same time.
C21_Witness ==
    /\ 1 \in DOMAIN frames
    /\ frames[1].kind = "par"
    /\ frames[1].thread_quota = 4
    /\ Cardinality(ActiveThreads(1)) = 4
    /\ Cardinality({frames[m].thread :
                       m \in {k \in DOMAIN frames :
                                 /\ frames[k].kind = "sort"
                                 /\ frames[k].pc \in {"scan", "merge"}}}) = 4

\* C22: parallel_natural_merge_sort takes min(cores, length / MINIMUM_THREAD_LOAD),
\* the division an integer one, as its budget.  With a budget below 2 (always
\* so with 0 or 1 cores, or with fewer than 2 * MINIMUM_THREAD_LOAD elements)
\* the only activation is natural_merge_sort's, on the calling thread, no
\* thread is spawned, and the call ends as natural_merge_sort does.  Otherwise
\* the fork-join wrapper is called with the buffer as source, the caller's
\* array as target and the budget as quota, the buffer a copy of the array.
C22_Dispatch ==
    (entry = "par" /\ pc \in {"running", "returned"}) =>
        /\ spawn = Min(cores, Len(orig) \div MINIMUM_THREAD_LOAD)
        /\ cores < 2 => spawn < 2
        /\ Len(orig) < 2 * MINIMUM_THREAD_LOAD => spawn < 2
        /\ spawn < 2 =>
              /\ stats.spawn = 0
              /\ \A n \in DOMAIN frames :
                    /\ n = 1
                    /\ frames[n].kind = "sort"
                    /\ frames[n].thread = MainThread
                    /\ frames[n].first = "A"
                    /\ frames[n].buffer = "B"
                    /\ frames[n].base = 0
                    /\ frames[n].length = Len(orig)
              /\ pc = "returned" =>
                    /\ mem.A = array2
                    /\ alloc.frees = alloc.allocs
        /\ spawn >= 2 =>
              /\ pc = "running" =>
                    /\ 1 \in DOMAIN frames
                    /\ frames[1].kind = "par"
                    /\ frames[1].thread = MainThread
                    /\ frames[1].source = "B"
                    /\ frames[1].target = "A"
                    /\ frames[1].base = 0
                    /\ frames[1].length = Len(orig)
                    /\ frames[1].thread_quota = spawn
                    /\ frames[1].pc = "entry" => (mem.B = orig /\ mem.A = orig)
              /\ alloc.allocs = 1

\* Four cores and one element too few for two threads: the merge loop of the
\* sequential sort is running on the calling thread.
C22_Witness ==
    /\ entry = "par"
    /\ pc = "running"
    /\ cores = MaxCores
    /\ Len(orig) = 2 * MINIMUM_THREAD_LOAD - 1
    /\ spawn = 1
    /\ DOMAIN frames = {1}
    /\ frames[1].kind = "sort"
    /\ frames[1].pc = "merge"
    /\ frames[1].merges = 1

\* The merge loop of activation n is running or has exited.
InMergeLoop(n) ==
    /\ frames[n].kind = "sort"
    /\ frames[n].pc \in {"merge", "done"}
    /\ frames[n].length >= 2

\* The queue holds one length less per merge, and the finished loop has merged
\* r - 1 times.  No activation is stuck: natural_merge_sort_impl never waits,
\* and the fork-join wrapper waits only for a sub-sort that exists.  An
\* activation of the wrapper past its join has no sub-sort left, and the entry
\* point returns with none.
C23_LoopAndJoinState ==
    /\ \A n \in DOMAIN frames :
          /\ InMergeLoop(n) =>
                /\ size(frames[n].q) = frames[n].runs - frames[n].merges
                /\ size(frames[n].q) >= 1
                /\ frames[n].merges <= frames[n].runs - 1
          /\ LoopExited(n) =>
                /\ size(frames[n].q) = 1
                /\ frames[n].merges = frames[n].runs - 1
          /\ frames[n].kind = "sort" =>
                frames[n].pc \in {"entry", "scan", "merge", "done"}
          /\ frames[n].kind = "par" =>
                /\ frames[n].pc \in {"entry", "leaf", "call", "join", "merge", "done"}
                /\ frames[n].pc = "leaf" => 2 * n \in DOMAIN frames
                /\ frames[n].pc = "call" =>
                      (2 * n \in DOMAIN frames /\ 2 * n + 1 \in DOMAIN frames)
                /\ frames[n].pc = "join" => 2 * n \in DOMAIN frames
                /\ frames[n].pc \in {"merge", "done"} =>
                      (2 * n \notin DOMAIN frames /\ 2 * n + 1 \notin DOMAIN frames)
          /\ n > 1 =>
                /\ n \div 2 \in DOMAIN frames
                /\ frames[n \div 2].pc \in {"leaf", "call", "join"}
    /\ pc = "running" => 1 \in DOMAIN frames
    /\ pc \in {"start", "returned"} => frames = <<>>

\* A step of the merge loop takes one length off the queue, whether or not it
\* ends a pass; an activation goes only when it has returned.
C23_LoopAndJoinStep ==
    /\ \A n \in DOMAIN frames :
          (/\ n \in DOMAIN frames'
           /\ frames[n].kind = "sort"
           /\ frames[n].pc = "merge"
           /\ frames'[n].pc = "merge"
           /\ frames'[n] # frames[n]) =>
              /\ frames'[n].merges = frames[n].merges + 1
              /\ size(frames'[n].q) = size(frames[n].q) - 1
    /\ \A n \in DOMAIN frames \ DOMAIN frames' : frames[n].pc = "done"

\* The steps a call of natural_merge_sort_impl on length elements has ahead
\* of it at most.
SortWork(length) == 2 * length + 4

RECURSIVE ParWork(_, _)
\* The steps a call of the fork-join wrapper and all its sub-sorts have ahead
\* of them at most.
ParWork(thread_quota, length) ==
    IF thread_quota = 1 THEN 2 + SortWork(length)
    ELSE IF thread_quota = 2
    THEN 4 + SortWork(length \div 2) + SortWork(length - length \div 2)
    ELSE 4 + ParWork(thread_quota \div 2, length \div 2)
           + ParWork(thread_quota - thread_quota \div 2, length - length \div 2)

\* The steps activation f has ahead of it, those of the activations it has
\* yet to start included.
WorkLeft(f) ==
    IF f.kind = "sort"
    THEN CASE f.pc = "entry" -> SortWork(f.length)
           [] f.pc = "scan" -> f.length + 2 + Max(0, f.lst - f.left + 1)
           [] f.pc = "merge" -> size(f.q)
           [] OTHER -> 0
    ELSE CASE f.pc = "entry" -> ParWork(f.thread_quota, f.length)
           [] f.pc = "call" -> 3
           [] f.pc = "join" -> 2
           [] f.pc \in {"leaf", "merge"} -> 1
           [] OTHER -> 0

RECURSIVE WorkOf(_)
WorkOf(ns) ==
    IF ns = {} THEN 0
    ELSE LET n == CHOOSE k \in ns : TRUE
         IN  WorkLeft(frames[n]) + WorkOf(ns \ {n})

\* The calls the harness has yet to finish.
CallsLeft ==
    (IF entry = "seq" THEN 3 ELSE 0)
        + (CASE pc = "start" -> 2 [] pc = "running" -> 1 [] OTHER -> 0)

\* Every step of the program lowers the pair of CallsLeft and the work left
\* in the activations, in the lexicographic order of pairs of naturals.
VariantLowered ==
    \/ CallsLeft' < CallsLeft
    \/ /\ CallsLeft' = CallsLeft
       /\ WorkOf(DOMAIN frames)' < WorkOf(DOMAIN frames)

\* C23: the merge loop of natural_merge_sort_impl takes one length off the
\* queue per iteration (the left-over step leaves the count alone) and exits
\* with one length after r - 1 merges; no activation is ever stuck and every
\* step lowers a pair of naturals, so that every loop, every sub-sort and
\* every call ends; a spawned sub-sort disappears only after it has returned, and
\* it is joined before the activation that spawned it merges and returns.
C23_Terminates ==
    /\ []C23_LoopAndJoinState
    /\ [][C23_LoopAndJoinStep /\ VariantLowered]_vars

\* Five runs merged in four steps by the sequential sort, and a parallel sort
\* of the same input with three spawned threads has returned.
C23_Witness ==
    /\ Returned("par")
    /\ Keys(orig) = FiveRuns
    /\ spawn = 4
    /\ stats.spawn = 3
    /\ frames = <<>>
    /\ CallsLeft = 0
    /\ mem.A = array2

====
